---- MODULE Spec2Model ----
(***************************************************************************)
(* Model of fra_pipeline/scripts/fra_gluing_algorithm.py: the lifting of   *)
(* precinct adjacency to district adjacency, the contiguity and            *)
(* feasibility checks, and the randomized greedy gluing with its retry     *)
(* loop.                                                                   *)
(***************************************************************************)
EXTENDS Integers, Sequences, FiniteSets, TLC

VARIABLES
    district_adj,       \* glue input: dict district -> set of districts
    target_sizes,       \* glue input: list of super-district sizes
    num_districts,      \* glue input
    seed,               \* glue input
    pc,                 \* position of the run inside glue_districts_greedy / _try_gluing
    attempt,            \* loop variable of glue_districts_greedy
    super_id,           \* loop variable of _try_gluing
    unused,             \* local of _try_gluing
    current_group,      \* local of _try_gluing
    district_to_super,  \* local of _try_gluing, the value returned
    rng,                \* state of the process-wide generator of module random
    started,            \* number of calls of _try_gluing made so far
    reason,             \* the ValueError raised by the current attempt, "none" if none
    cause,              \* __cause__ of the ValueError raised by glue_districts_greedy
    runB,               \* a second run of glue_districts_greedy on the same inputs
    precinct_adj,       \* lifter input: dict precinct -> set of precincts
    assignment,         \* lifter input: dict precinct -> district
    lifted,             \* value returned by build_district_adjacency
    lpc,                \* position of the lifter run
    gdf,                \* aggregator input: the precinct table, index -> row
    super_districts_data, \* value returned by the aggregator, updated by the allocator
    apc,                \* position of the aggregate / allocate run
    run,                \* which run of aggregate-then-allocate this is
    first_data,         \* super_districts_data at the end of the first run
    in_districts,       \* `districts` of is_connected, `unused` of can_satisfy_remaining
    in_remaining,       \* `remaining_sizes` of can_satisfy_remaining
    bfs_start,          \* the member is_connected starts its traversal from
    connected,          \* value returned by is_connected
    satisfiable,        \* value returned by can_satisfy_remaining
    fpc                 \* position of the run of the two checks

glueVars == <<pc, attempt, super_id, unused, current_group, district_to_super,
              rng, started, reason, cause>>
inputVars == <<district_adj, target_sizes, num_districts, seed>>
otherInputs == <<target_sizes, num_districts, seed>>
liftVars == <<precinct_adj, assignment, lifted, lpc>>
aggVars == <<gdf, super_districts_data, apc, run, first_data>>
checkVars == <<in_districts, in_remaining, bfs_start, connected, satisfiable, fpc>>
vars == <<inputVars, glueVars, runB, liftVars, aggVars, checkVars>>

(***************************************************************************)
(* Bounds of the model and constants of the program.                       *)
(***************************************************************************)
MaxDistricts == 4
MaxPrecincts == 3
MaxLiftDistricts == 2
MaxUnitVotes == 1
MaxVotes == 5
MaxSeats == 3
MaxShift == 2
max_attempts == 100
DefaultSeed == 42

(***************************************************************************)
(* Helpers on sets and sequences.                                          *)
(***************************************************************************)
Min(S) == CHOOSE x \in S : \A y \in S : x <= y

Max(S) == CHOOSE x \in S : \A y \in S : x >= y

RECURSIVE SumSeq(_)
SumSeq(s) == IF s = <<>> THEN 0 ELSE Head(s) + SumSeq(Tail(s))

Range(s) == {s[i] : i \in DOMAIN s}

\* The order in which Python iterates over a set of small integers, taken
\* here to be a function of the set's contents: ascending.
RECURSIVE IterOrder(_)
IterOrder(S) == IF S = {} THEN <<>> ELSE <<Min(S)>> \o IterOrder(S \ {Min(S)})

EmptyDict == [x \in {} |-> 0]

\* district_adj.get(d, set())
Neighbors(adj, d) == IF d \in DOMAIN adj THEN adj[d] ELSE {}

(***************************************************************************)
(* build_district_adjacency: district adjacency lifted from precinct       *)
(* adjacency.  The result is a defaultdict: a district gets a key when an  *)
(* edge is added at it, and only then.                                     *)
(***************************************************************************)
\* Replaces both additions by the first one only.
AddEdgeOneWay(my_district, neighbor_district) ==
    {<<my_district, neighbor_district>>}

\* The two additions made for a pair of precincts in different districts.
AddEdge(my_district, neighbor_district) ==
    {<<my_district, neighbor_district>>, <<neighbor_district, my_district>>}

\* Leaves out the test my_district != neighbor_district.
LiftEdgesWithinDistrict(padj, asg) ==
    LET pairs == UNION {{<<precinct, neighbor>> : neighbor \in padj[precinct]}
                        : precinct \in DOMAIN padj}
    IN  UNION {AddEdge(asg[e[1]], asg[e[2]]) : e \in pairs}

\* The loops over the precincts and their neighbours: the set of (key, member)
\* additions made to district_adj.
LiftEdges(padj, asg) ==
    LET pairs == UNION {{<<precinct, neighbor>> : neighbor \in padj[precinct]}
                        : precinct \in DOMAIN padj}
    IN  UNION {IF asg[e[1]] # asg[e[2]] THEN AddEdge(asg[e[1]], asg[e[2]]) ELSE {}
               : e \in pairs}

build_district_adjacency(padj, asg) ==
    LET E == LiftEdges(padj, asg)
    IN  [d \in {e[1] : e \in E} |-> {e[2] : e \in {x \in E : x[1] = d}}]

(***************************************************************************)
(* is_connected and can_satisfy_remaining.                                 *)
(***************************************************************************)
\* The breadth-first loop shared by both: everything reached from `visited`
\* through members of `within`.
\* Visits every neighbour, members of `within` or not.
RECURSIVE BfsUnrestricted(_, _, _)
BfsUnrestricted(visited, within, adj) ==
    LET new == {n \in UNION {Neighbors(adj, c) : c \in visited} : n \notin visited}
    IN  IF new = {} THEN visited ELSE BfsUnrestricted(visited \cup new, within, adj)

RECURSIVE Bfs(_, _, _)
Bfs(visited, within, adj) ==
    LET new == {n \in UNION {Neighbors(adj, c) : c \in visited} :
                    n \in within /\ n \notin visited}
    IN  IF new = {} THEN visited ELSE Bfs(visited \cup new, within, adj)

\* The traversal of is_connected and its final comparison, from the member
\* `first` of a non-empty set.
is_connected_from(first, districts, adj) ==
    Cardinality(Bfs({first}, districts, adj)) = Cardinality(districts)

is_connected(districts, adj) ==
    IF districts = {} THEN TRUE
    ELSE LET start == Head(IterOrder(districts))
         IN  is_connected_from(start, districts, adj)

\* The loop over `unused` that collects the components, with its shared
\* `visited` set.
RECURSIVE Components(_, _, _, _)
Components(order, visited, unusedSet, adj) ==
    IF order = <<>> THEN <<>>
    ELSE LET start == Head(order)
         IN  IF start \in visited
             THEN Components(Tail(order), visited, unusedSet, adj)
             ELSE LET component == Bfs({start}, unusedSet \ visited, adj)
                  IN  <<component>> \o
                      Components(Tail(order), visited \cup component, unusedSet, adj)

\* Leaves out the comparison of the largest component with the largest size.
can_satisfy_sum_only(unusedSet, adj, remaining_sizes) ==
    IF remaining_sizes = <<>> THEN Cardinality(unusedSet) = 0
    ELSE Cardinality(unusedSet) = SumSeq(remaining_sizes)

\* Leaves out the comparison of the two sums.
can_satisfy_largest_only(unusedSet, adj, remaining_sizes) ==
    IF remaining_sizes = <<>> THEN Cardinality(unusedSet) = 0
    ELSE LET components == Components(IterOrder(unusedSet), {}, unusedSet, adj)
             component_sizes == [i \in DOMAIN components |-> Cardinality(components[i])]
         IN  IF /\ component_sizes # <<>>
                /\ Max(Range(component_sizes)) < Max(Range(remaining_sizes))
             THEN FALSE
             ELSE TRUE

\* Asks for a component larger than the largest size.
can_satisfy_needs_larger(unusedSet, adj, remaining_sizes) ==
    IF remaining_sizes = <<>> THEN Cardinality(unusedSet) = 0
    ELSE LET components == Components(IterOrder(unusedSet), {}, unusedSet, adj)
             component_sizes == [i \in DOMAIN components |-> Cardinality(components[i])]
         IN  IF SumSeq(component_sizes) # SumSeq(remaining_sizes) THEN FALSE
             ELSE IF /\ component_sizes # <<>>
                     /\ Max(Range(component_sizes)) <= Max(Range(remaining_sizes))
                  THEN FALSE
                  ELSE TRUE

can_satisfy_remaining(unusedSet, adj, remaining_sizes) ==
    IF remaining_sizes = <<>> THEN Cardinality(unusedSet) = 0
    ELSE LET components == Components(IterOrder(unusedSet), {}, unusedSet, adj)
             component_sizes == [i \in DOMAIN components |-> Cardinality(components[i])]
         IN  IF SumSeq(component_sizes) # SumSeq(remaining_sizes) THEN FALSE
             ELSE IF /\ component_sizes # <<>>
                     /\ Max(Range(component_sizes)) < Max(Range(remaining_sizes))
                  THEN FALSE
                  ELSE TRUE

(***************************************************************************)
(* aggregate_precincts_to_superdistricts and allocate_seats_proportionally.*)
(* A float that is the quotient of two integers is held as that quotient   *)
(* in lowest terms: two such floats are equal exactly when the quotients   *)
(* are, for the magnitudes met here.                                       *)
(***************************************************************************)
RECURSIVE Gcd(_, _)
Gcd(a, b) == IF b = 0 THEN a ELSE Gcd(b, a % b)

\* a / b for integers a >= 0 and b > 0.
Quotient(a, b) == [num |-> a \div Gcd(a, b), den |-> b \div Gcd(a, b)]

\* The integer 0 the share is set to when no vote was cast; 0 == 0.0.
Zero == [num |-> 0, den |-> 1]

RECURSIVE SumOver(_, _)
SumOver(S, f) ==
    IF S = {} THEN 0
    ELSE LET x == CHOOSE y \in S : TRUE IN f[x] + SumOver(S \ {x}, f)

\* The districts looked up in district_to_super that it has no key for: the
\* lookup of line 399 raises KeyError at the first of them.
UnmappedDistricts(asg, d2s) == {asg[precinct] : precinct \in DOMAIN asg} \ DOMAIN d2s

precinct_to_super(asg, d2s) ==
    [precinct \in DOMAIN asg |-> d2s[asg[precinct]]]

\* Counts a row without an entry of precinct_to_super for super-district 0.
CountedWithDefault(table, p2s, sid) ==
    {precinct_idx \in DOMAIN table :
        IF precinct_idx \in DOMAIN p2s THEN p2s[precinct_idx] = sid ELSE sid = 0}

\* The rows of the table that the loop over gdf.index adds to super-district sid.
Counted(table, p2s, sid) ==
    {precinct_idx \in DOMAIN table :
        precinct_idx \in DOMAIN p2s /\ p2s[precinct_idx] = sid}

\* Assigns the row of the last precinct where the code adds it.
AccumulatedLastOnly(table, units) ==
    LET row == table[Max(units)]
    IN  [dem_votes |-> row.G24PREDHAR, rep_votes |-> row.G24PRERTRU,
         population |-> row.TOTPOP, precincts |-> IterOrder(units)]

\* The entry of the defaultdict super_districts after the loop, for a
\* super-district that got the rows `units` (in the order of gdf.index).
Accumulated(table, units) ==
    [dem_votes |-> SumOver(units, [u \in units |-> table[u].G24PREDHAR]),
     rep_votes |-> SumOver(units, [u \in units |-> table[u].G24PRERTRU]),
     population |-> SumOver(units, [u \in units |-> table[u].TOTPOP]),
     precincts |-> IterOrder(units)]

\* Splits the seats evenly where the code gives party A a share of 0.
DemShareEvenWhenEmpty(data) ==
    LET total_votes == data.dem_votes + data.rep_votes
    IN  IF total_votes > 0 THEN Quotient(data.dem_votes, total_votes)
        ELSE Quotient(1, 2)

DemShare(data) ==
    LET total_votes == data.dem_votes + data.rep_votes
    IN  IF total_votes > 0 THEN Quotient(data.dem_votes, total_votes) ELSE Zero

SuperDistrictRecord(sid, data) ==
    [superdistrict_id |-> sid,
     dem_votes |-> data.dem_votes,
     rep_votes |-> data.rep_votes,
     population |-> data.population,
     dem_share |-> DemShare(data),
     num_precincts |-> Len(data.precincts),
     precincts |-> data.precincts]

\* The value returned when no KeyError is raised.  A super-district has an
\* entry when a row was added to it, and only then.
aggregate_precincts_to_superdistricts(table, asg, d2s) ==
    LET p2s == precinct_to_super(asg, d2s)
        keys == {p2s[precinct_idx] : precinct_idx \in DOMAIN table \cap DOMAIN p2s}
    IN  [sid \in keys |->
            SuperDistrictRecord(sid, Accumulated(table, Counted(table, p2s, sid)))]

\* round(dem_share * total_seats) is computed on floats.  The product of the
\* two floats is the exact product except at some exact halves, where it falls
\* just beside the half: <<num, den, total_seats, value of round>> for the
\* shares num/den with den < 1500 and up to 20 seats where that happens.
FloatTies ==
    {<<15, 22, 11, 7>>, <<15, 26, 13, 7>>, <<21, 38, 19, 11>>}

\* int(): drops the fraction where the code rounds.
RoundDown(share, total_seats) == (share.num * total_seats) \div share.den

\* round(share * total_seats): to the nearest integer, an exact half to the
\* even neighbour.
round(share, total_seats) ==
    LET n == share.num * total_seats
        d == share.den
        below == n \div d
        beside == {t \in FloatTies :
                      t[1] = share.num /\ t[2] = d /\ t[3] = total_seats}
    IN  IF 2 * (n % d) < d THEN below
        ELSE IF 2 * (n % d) > d THEN below + 1
        ELSE IF beside # {} THEN (CHOOSE t \in beside : TRUE)[4]
        ELSE IF below % 2 = 0 THEN below ELSE below + 1

\* Rounds the seats of party B on their own where the code subtracts.
SeatsRoundedSeparately(share, total_seats) ==
    [total_seats |-> total_seats,
     dem_seats |-> round(share, total_seats),
     rep_seats |-> round([num |-> share.den - share.num, den |-> share.den],
                         total_seats)]

Seats(share, total_seats) ==
    LET dem_seats == round(share, total_seats)
    IN  [total_seats |-> total_seats,
         dem_seats |-> dem_seats,
         rep_seats |-> total_seats - dem_seats]

\* Adds the seats to those already in the record where the code assigns them.
AllocatedAdding(data, total_seats) ==
    LET new == Seats(data.dem_share, total_seats)
        old == IF "dem_seats" \in DOMAIN data THEN data.dem_seats ELSE 0
    IN  [new EXCEPT !.dem_seats = @ + old] @@ data

\* The record of one super-district after the body of the loop: the three
\* seat fields assigned in place, the other fields as they were.
Allocated(data, total_seats) ==
    Seats(data.dem_share, total_seats) @@ data

allocate_seats_proportionally(sdd, sizes) ==
    [sid \in DOMAIN sdd |-> Allocated(sdd[sid], sizes[sid + 1])]

(***************************************************************************)
(* The generator of module random.  Its state is named by the seed last    *)
(* given to random.seed and the lengths of the lists drawn from since:     *)
(* two generators with the same name are in the same state and make the    *)
(* same draws.  A negative seed names a state left over by earlier calls.  *)
(***************************************************************************)
\* random.seed() without its argument: the state does not depend on s.
RandomSeedNoArg(old, s) == old

\* random.seed(s)
RandomSeed(old, s) == [seed |-> s, draws |-> <<>>]

\* The state after random.choice on a list of n elements.
Drawn(old, n) == [seed |-> old.seed, draws |-> Append(old.draws, n)]

Leftover(k) == [seed |-> 0 - k, draws |-> <<>>]

(***************************************************************************)
(* One run of glue_districts_greedy: its state as a record, and the steps  *)
(* it can take from a state.  A step is a record: the state it leads to    *)
(* and, when it calls random.choice, the length n of the list and the      *)
(* index i drawn (n = 0 when it draws nothing).                            *)
(***************************************************************************)
Step(next, n, i) == [next |-> next, n |-> n, i |-> i]

\* A ValueError raised inside _try_gluing: its frame and locals are gone.
Abort(s, why) ==
    [s EXCEPT !.pc = "aborted", !.reason = why, !.unused = {},
              !.current_group = {}, !.district_to_super = EmptyDict,
              !.super_id = 0]

\* The seed argument of the call of glue_districts_greedy that run s is: the
\* input `seed`, unless the run was called with a seed of its own.
SeedOf(s) == IF "seed" \in DOMAIN s THEN s.seed ELSE seed

\* glue_districts_greedy up to the first iteration of its loop.
GlueSteps(s) ==
    IF s.pc = "call"
    THEN {Step([s EXCEPT !.pc = "try", !.attempt = 0,
                         !.rng = RandomSeed(s.rng, SeedOf(s))], 0, 0)}
    ELSE {}

\* Leaves out random.seed(seed) at the head of _try_gluing.
TryGluingStepsKeepsGenerator(s) ==
    IF s.pc = "try"
    THEN {Step([s EXCEPT !.pc = "seed",
                         !.unused = 0 .. (num_districts - 1),
                         !.district_to_super = EmptyDict,
                         !.super_id = 0,
                         !.current_group = {},
                         !.reason = "none",
                         !.started = s.started + 1], 0, 0)}
    ELSE {}

\* The call of _try_gluing with seed + attempt, up to its loop.
TryGluingSteps(s) ==
    IF s.pc = "try"
    THEN {Step([s EXCEPT !.pc = "seed",
                         !.rng = RandomSeed(s.rng, SeedOf(s) + s.attempt),
                         !.unused = 0 .. (num_districts - 1),
                         !.district_to_super = EmptyDict,
                         !.super_id = 0,
                         !.current_group = {},
                         !.reason = "none",
                         !.started = s.started + 1], 0, 0)}
    ELSE {}

\* The loop over target_sizes is exhausted: return district_to_super.
ReturnSteps(s) ==
    IF s.pc = "seed" /\ s.super_id = Len(target_sizes)
    THEN {Step([s EXCEPT !.pc = "returned"], 0, 0)}
    ELSE {}

\* "Ran out of districts!"
RanOutSteps(s) ==
    IF s.pc = "seed" /\ s.super_id < Len(target_sizes) /\ s.unused = {}
    THEN {Step(Abort(s, "ran_out"), 0, 0)}
    ELSE {}

\* seed_district = random.choice(list(unused))
PickSeedSteps(s) ==
    IF s.pc = "seed" /\ s.super_id < Len(target_sizes) /\ s.unused # {}
    THEN LET list == IterOrder(s.unused)
         IN  {Step([s EXCEPT !.pc = "grow",
                             !.current_group = {list[i]},
                             !.unused = s.unused \ {list[i]},
                             !.rng = Drawn(s.rng, Len(list))], Len(list), i)
              : i \in 1 .. Len(list)}
    ELSE {}

\* while len(current_group) < target_size
Growing(s) ==
    Cardinality(s.current_group) < target_sizes[s.super_id + 1]

\* Leaves out the adjacency: every unused district is a candidate.
CandidatesAnyUnused(group, unusedSet, adj) == unusedSet

\* Leaves out the test `neighbor in unused`.
CandidatesAnyNeighbour(group, unusedSet, adj) ==
    UNION {Neighbors(adj, dist) : dist \in group}

\* The unused districts adjacent to the group.
Candidates(group, unusedSet, adj) ==
    {neighbor \in UNION {Neighbors(adj, dist) : dist \in group} : neighbor \in unusedSet}

\* "Cannot expand super-district"
NoCandidateSteps(s) ==
    IF /\ s.pc = "grow"
       /\ Growing(s)
       /\ Candidates(s.current_group, s.unused, district_adj) = {}
    THEN {Step(Abort(s, "no_candidate"), 0, 0)}
    ELSE {}

\* new_district = random.choice(list(candidates))
\* Adds the candidate to the group without removing it from unused.
GrowStepsKeepsUnused(s) ==
    IF s.pc = "grow" /\ Growing(s)
    THEN LET list == IterOrder(Candidates(s.current_group, s.unused, district_adj))
         IN  {Step([s EXCEPT !.current_group = s.current_group \cup {list[i]},
                             !.rng = Drawn(s.rng, Len(list))], Len(list), i)
              : i \in 1 .. Len(list)}
    ELSE {}

GrowSteps(s) ==
    IF s.pc = "grow" /\ Growing(s)
    THEN LET list == IterOrder(Candidates(s.current_group, s.unused, district_adj))
         IN  {Step([s EXCEPT !.current_group = s.current_group \cup {list[i]},
                             !.unused = s.unused \ {list[i]},
                             !.rng = Drawn(s.rng, Len(list))], Len(list), i)
              : i \in 1 .. Len(list)}
    ELSE {}

\* target_sizes[super_id + 1:]
RemainingTargets(s) == SubSeq(target_sizes, s.super_id + 2, Len(target_sizes))

\* Replaces the update of district_to_super by a fresh dict of the group.
CommitOverwrites(mapping, group, sid) == [dist \in group |-> sid]

\* for dist in current_group: district_to_super[dist] = super_id
Commit(mapping, group, sid) ==
    [dist \in DOMAIN mapping \cup group |->
        IF dist \in group THEN sid ELSE mapping[dist]]

\* The group is complete: the contiguity check, the feasibility check and
\* the assignment of the group to super_id.
CloseGroupSteps(s) ==
    IF s.pc = "grow" /\ ~Growing(s)
    THEN IF ~is_connected(s.current_group, district_adj)
         THEN {Step(Abort(s, "not_contiguous"), 0, 0)}
         ELSE IF ~can_satisfy_remaining(s.unused, district_adj, RemainingTargets(s))
              THEN {Step(Abort(s, "infeasible"), 0, 0)}
              ELSE {Step([s EXCEPT
                            !.pc = "seed",
                            !.district_to_super =
                                Commit(s.district_to_super, s.current_group, s.super_id),
                            !.current_group = {},
                            !.super_id = s.super_id + 1], 0, 0)}
    ELSE {}

\* Replaces the test by attempt < max_attempts - 2.
RetryAllowedEarly(s) == s.attempt < max_attempts - 2

\* if attempt < max_attempts - 1
RetryAllowed(s) == s.attempt < max_attempts - 1

\* except ValueError: retry, or raise from the last error.
HandlerSteps(s) ==
    IF s.pc = "aborted"
    THEN IF RetryAllowed(s)
         THEN {Step([s EXCEPT !.pc = "try", !.attempt = s.attempt + 1,
                              !.reason = "none"], 0, 0)}
         ELSE {Step([s EXCEPT !.pc = "raised", !.cause = s.reason,
                              !.reason = "no_grouping"], 0, 0)}
    ELSE {}

Steps(s) ==
    GlueSteps(s) \cup TryGluingSteps(s) \cup ReturnSteps(s) \cup RanOutSteps(s)
    \cup PickSeedSteps(s) \cup NoCandidateSteps(s) \cup GrowSteps(s)
    \cup CloseGroupSteps(s) \cup HandlerSteps(s)

\* district_adj[d] on the defaultdict, for every d of `queried`: a district
\* without a key gets one, with an empty set.
AfterIndexing(adj, queried) ==
    [d \in DOMAIN adj \cup queried |-> Neighbors(adj, d)]

\* The adjacency after district_adj.get(d, set()) for every d of `queried`:
\* get reads, on a defaultdict too, and adds no key.
AfterGets(adj, queried) == adj

\* The districts whose neighbours is_connected asks for: those it visits.
QueriedByIsConnected(group, adj) ==
    IF group = {} THEN {} ELSE Bfs({Head(IterOrder(group))}, group, adj)

\* The districts whose neighbours can_satisfy_remaining asks for: every
\* unused one, unless it returns at once on an empty list of sizes.
QueriedByCanSatisfy(unusedSet, sizes) == IF sizes = <<>> THEN {} ELSE unusedSet

\* The districts whose neighbours the next step of the run asks for.
Queried(s) ==
    IF s.pc # "grow" THEN {}
    ELSE IF Growing(s) THEN s.current_group
    ELSE QueriedByIsConnected(s.current_group, district_adj)
         \cup IF is_connected(s.current_group, district_adj)
              THEN QueriedByCanSatisfy(s.unused, RemainingTargets(s))
              ELSE {}

(***************************************************************************)
(* The run under observation, held in the variables.                       *)
(***************************************************************************)
Cur ==
    [pc |-> pc, attempt |-> attempt, super_id |-> super_id, unused |-> unused,
     current_group |-> current_group, district_to_super |-> district_to_super,
     rng |-> rng, started |-> started, reason |-> reason, cause |-> cause]

Becomes(s) ==
    /\ pc' = s.pc
    /\ attempt' = s.attempt
    /\ super_id' = s.super_id
    /\ unused' = s.unused
    /\ current_group' = s.current_group
    /\ district_to_super' = s.district_to_super
    /\ rng' = s.rng
    /\ started' = s.started
    /\ reason' = s.reason
    /\ cause' = s.cause

Starts(s) ==
    /\ pc = s.pc
    /\ attempt = s.attempt
    /\ super_id = s.super_id
    /\ unused = s.unused
    /\ current_group = s.current_group
    /\ district_to_super = s.district_to_super
    /\ rng = s.rng
    /\ started = s.started
    /\ reason = s.reason
    /\ cause = s.cause

NotCalled(k) ==
    [pc |-> "call", attempt |-> 0, super_id |-> 0, unused |-> {},
     current_group |-> {}, district_to_super |-> EmptyDict,
     rng |-> Leftover(k), started |-> 0, reason |-> "none", cause |-> "none"]

Off == [NotCalled(1) EXCEPT !.pc = "off"]

glue_districts_greedy ==
    /\ \E m \in GlueSteps(Cur) : Becomes(m.next)
    /\ district_adj' = AfterGets(district_adj, Queried(Cur))
    /\ UNCHANGED <<otherInputs, runB, liftVars, aggVars, checkVars>>

try_gluing ==
    /\ \E m \in TryGluingSteps(Cur) : Becomes(m.next)
    /\ district_adj' = AfterGets(district_adj, Queried(Cur))
    /\ UNCHANGED <<otherInputs, runB, liftVars, aggVars, checkVars>>

Return ==
    /\ \E m \in ReturnSteps(Cur) : Becomes(m.next)
    /\ district_adj' = AfterGets(district_adj, Queried(Cur))
    /\ UNCHANGED <<otherInputs, runB, liftVars, aggVars, checkVars>>

RanOut ==
    /\ \E m \in RanOutSteps(Cur) : Becomes(m.next)
    /\ district_adj' = AfterGets(district_adj, Queried(Cur))
    /\ UNCHANGED <<otherInputs, runB, liftVars, aggVars, checkVars>>

PickSeed ==
    /\ \E m \in PickSeedSteps(Cur) : Becomes(m.next)
    /\ district_adj' = AfterGets(district_adj, Queried(Cur))
    /\ UNCHANGED <<otherInputs, runB, liftVars, aggVars, checkVars>>

NoCandidate ==
    /\ \E m \in NoCandidateSteps(Cur) : Becomes(m.next)
    /\ district_adj' = AfterGets(district_adj, Queried(Cur))
    /\ UNCHANGED <<otherInputs, runB, liftVars, aggVars, checkVars>>

Grow ==
    /\ \E m \in GrowSteps(Cur) : Becomes(m.next)
    /\ district_adj' = AfterGets(district_adj, Queried(Cur))
    /\ UNCHANGED <<otherInputs, runB, liftVars, aggVars, checkVars>>

CloseGroup ==
    /\ \E m \in CloseGroupSteps(Cur) : Becomes(m.next)
    /\ district_adj' = AfterGets(district_adj, Queried(Cur))
    /\ UNCHANGED <<otherInputs, runB, liftVars, aggVars, checkVars>>

Handler ==
    /\ \E m \in HandlerSteps(Cur) : Becomes(m.next)
    /\ district_adj' = AfterGets(district_adj, Queried(Cur))
    /\ UNCHANGED <<otherInputs, runB, liftVars, aggVars, checkVars>>

(***************************************************************************)
(* Inputs of glue_districts_greedy.                                        *)
(***************************************************************************)
Pairs(n) == {e \in (0 .. (n - 1)) \X (0 .. (n - 1)) : e[1] < e[2]}

\* The symmetric adjacency with the undirected edges E, keyed as
\* build_district_adjacency keys it: by the districts that have an edge.
GraphOf(E) ==
    [d \in {e[1] : e \in E} \cup {e[2] : e \in E} |->
        {e[2] : e \in {x \in E : x[1] = d}} \cup {e[1] : e \in {x \in E : x[2] = d}}]

\* The steps of a run never compare district ids, so one numbering of each
\* graph stands for all its renumberings: the one of least weight.
RECURSIVE Weight(_)
Weight(E) ==
    IF E = {} THEN 0
    ELSE LET e == CHOOSE x \in E : TRUE
         IN  2 ^ (e[1] * MaxDistricts + e[2]) + Weight(E \ {e})

Renumbered(E, p) ==
    {IF p[e[1]] < p[e[2]] THEN <<p[e[1]], p[e[2]]>> ELSE <<p[e[2]], p[e[1]]>> : e \in E}

LeastNumbering(E, n) ==
    \A p \in Permutations(0 .. (n - 1)) : Weight(E) <= Weight(Renumbered(E, p))

\* The chain 0-1-2-3 of the specification's scenario, numbered as written there.
Chain == {<<0, 1>>, <<1, 2>>, <<2, 3>>}

Graphs(n) ==
    {GraphOf(E) : E \in {F \in SUBSET Pairs(n) : LeastNumbering(F, n)}}
    \cup {GraphOf(E) : E \in {F \in {Chain} : F \subseteq Pairs(n)}}

\* Lists of sizes, zero included, of up to half as many groups as districts.
TargetLists ==
    UNION {[1 .. k -> 0 .. (MaxDistricts - 1)] : k \in 0 .. (MaxDistricts \div 2)}

LiftIdle ==
    /\ precinct_adj = EmptyDict
    /\ assignment = EmptyDict
    /\ lifted = EmptyDict
    /\ lpc = "off"

AggIdle ==
    /\ gdf = EmptyDict
    /\ super_districts_data = EmptyDict
    /\ apc = "off"
    /\ run = 1
    /\ first_data = EmptyDict

ChecksIdle ==
    /\ in_districts = {}
    /\ in_remaining = <<>>
    /\ bfs_start = "none"
    /\ connected = "none"
    /\ satisfiable = "none"
    /\ fpc = "off"

GlueInputs ==
    /\ num_districts \in 0 .. MaxDistricts
    /\ district_adj \in Graphs(num_districts)
    /\ target_sizes \in TargetLists
    /\ seed = DefaultSeed

Init ==
    /\ GlueInputs
    /\ Starts(NotCalled(1))
    /\ runB = Off
    /\ LiftIdle
    /\ AggIdle
    /\ ChecksIdle

Next ==
    \/ glue_districts_greedy
    \/ try_gluing
    \/ Return
    \/ RanOut
    \/ PickSeed
    \/ NoCandidate
    \/ Grow
    \/ CloseGroup
    \/ Handler

Spec == Init /\ [][Next]_vars

(***************************************************************************)
(* The lifter run on its own: build_district_adjacency applied to a        *)
(* precinct adjacency (not necessarily symmetric) and an assignment.       *)
(***************************************************************************)
Precincts == 0 .. (MaxPrecincts - 1)

GlueIdle ==
    /\ district_adj = EmptyDict
    /\ target_sizes = <<>>
    /\ num_districts = 0
    /\ seed = DefaultSeed
    /\ Starts(Off)
    /\ runB = Off

InitLift ==
    /\ precinct_adj \in {f \in [Precincts -> SUBSET Precincts] : \A p \in Precincts : p \notin f[p]}
    /\ assignment \in [Precincts -> 0 .. (MaxLiftDistricts - 1)]
    /\ lifted = EmptyDict
    /\ lpc = "call"
    /\ GlueIdle
    /\ AggIdle
    /\ ChecksIdle

Lift ==
    /\ lpc = "call"
    /\ lifted' = build_district_adjacency(precinct_adj, assignment)
    /\ lpc' = "done"
    /\ UNCHANGED <<precinct_adj, assignment, inputVars, glueVars, runB, aggVars, checkVars>>

NextLift == Lift

SpecLift == InitLift /\ [][NextLift]_vars

(***************************************************************************)
(* Two runs of glue_districts_greedy on the same inputs and seed, each     *)
(* started with its own left-over generator state, advanced together.      *)
(* Generators in the same state asked for a draw from lists of the same    *)
(* length draw the same index; nothing else relates the two runs.          *)
(***************************************************************************)
OrStay(steps, s) == IF steps = {} THEN {Step(s, 0, 0)} ELSE steps

SameDraw(s, a, t, b) ==
    (s.rng = t.rng /\ a.n = b.n /\ a.n > 0) => a.i = b.i

InitDet ==
    /\ GlueInputs
    /\ Starts(NotCalled(1))
    /\ runB = NotCalled(2)
    /\ LiftIdle
    /\ AggIdle
    /\ ChecksIdle

BothRuns ==
    LET runA == Cur
        stepsA == Steps(runA)
        stepsB == Steps(runB)
    IN  /\ stepsA # {} \/ stepsB # {}
        /\ \E a \in OrStay(stepsA, runA), b \in OrStay(stepsB, runB) :
              /\ SameDraw(runA, a, runB, b)
              /\ Becomes(a.next)
              /\ runB' = b.next
        /\ district_adj' = AfterGets(AfterGets(district_adj, Queried(runA)), Queried(runB))
        /\ UNCHANGED <<otherInputs, liftVars, aggVars, checkVars>>

NextDet == BothRuns

SpecDet == InitDet /\ [][NextDet]_vars

(***************************************************************************)
(* Step 4 of main: aggregate_precincts_to_superdistricts, then             *)
(* allocate_seats_proportionally on the value it returned; the allocator   *)
(* applied once more to its own output; and the two functions run again on *)
(* the same inputs.                                                        *)
(***************************************************************************)
Aggregate ==
    /\ apc = "call"
    /\ pc \in {"off", "returned"}
    /\ IF UnmappedDistricts(assignment, district_to_super) # {}
       THEN /\ apc' = "KeyError"
            /\ UNCHANGED super_districts_data
       ELSE /\ apc' = "aggregated"
            /\ super_districts_data' =
                  aggregate_precincts_to_superdistricts(gdf, assignment, district_to_super)
    /\ UNCHANGED <<gdf, run, first_data, inputVars, glueVars, runB, liftVars, checkVars>>

\* target_sizes[super_id] exists for every super-district of the data, as in
\* every mapping _try_gluing returns.
Allocate ==
    /\ apc \in {"aggregated", "allocated"}
    /\ \A sid \in DOMAIN super_districts_data : sid < Len(target_sizes)
    /\ super_districts_data' =
          allocate_seats_proportionally(super_districts_data, target_sizes)
    /\ apc' = IF apc = "aggregated" THEN "allocated" ELSE "reallocated"
    /\ UNCHANGED <<gdf, run, first_data, inputVars, glueVars, runB, liftVars, checkVars>>

\* The caller keeps the data of the first run and calls the aggregator again.
Rerun ==
    /\ apc = "reallocated"
    /\ run = 1
    /\ run' = 2
    /\ first_data' = super_districts_data
    /\ apc' = "call"
    /\ UNCHANGED <<gdf, super_districts_data, inputVars, glueVars, runB, liftVars, checkVars>>

BaseUnits == {0, 1}

BaselineDistricts == {0, 1}

Rows ==
    [G24PREDHAR : 0 .. MaxUnitVotes, G24PRERTRU : 0 .. MaxUnitVotes, TOTPOP : {1, 2}]

PartialFunctions(S, T) == UNION {[D -> T] : D \in SUBSET S}

\* Every table of two precincts, every assignment of some of them to two
\* districts, every mapping of some of the districts to two super-districts.
AggInputs ==
    /\ gdf \in [BaseUnits -> Rows]
    /\ assignment \in PartialFunctions(BaseUnits, BaselineDistricts)
    /\ target_sizes \in [1 .. 2 -> (MaxSeats - 1) .. MaxSeats]
    /\ \E d2s \in PartialFunctions(BaselineDistricts, {0, 1}) :
          Starts([Off EXCEPT !.district_to_super = d2s])

\* Two districts of one precinct each, with votes 60/40 and 30/70, glued into
\* one super-district of 3 seats.
MergedScenario ==
    /\ gdf = [u \in BaseUnits |->
                IF u = 0
                THEN [G24PREDHAR |-> 60, G24PRERTRU |-> 40, TOTPOP |-> 100]
                ELSE [G24PREDHAR |-> 30, G24PRERTRU |-> 70, TOTPOP |-> 100]]
    /\ assignment = [u \in BaseUnits |-> u]
    /\ target_sizes = <<3>>
    /\ Starts([Off EXCEPT !.district_to_super = [d \in BaselineDistricts |-> 0]])

InitAgg ==
    /\ AggInputs \/ MergedScenario
    /\ super_districts_data = EmptyDict
    /\ apc = "call"
    /\ run = 1
    /\ first_data = EmptyDict
    /\ district_adj = EmptyDict
    /\ num_districts = 0
    /\ seed = DefaultSeed
    /\ runB = Off
    /\ precinct_adj = EmptyDict
    /\ lifted = EmptyDict
    /\ lpc = "off"
    /\ ChecksIdle

NextAgg ==
    \/ Aggregate
    \/ Allocate
    \/ Rerun

SpecAgg == InitAgg /\ [][NextAgg]_vars

(***************************************************************************)
(* The allocator on its own, on data as the aggregator returns it, for a   *)
(* wider range of vote totals and seats.                                   *)
(***************************************************************************)
\* The record the aggregator returns for a super-district of one precinct.
Tally(sid, dem_votes, rep_votes) ==
    SuperDistrictRecord(sid, [dem_votes |-> dem_votes, rep_votes |-> rep_votes,
                              population |-> dem_votes + rep_votes,
                              precincts |-> <<sid>>])

AllocInputs ==
    /\ target_sizes \in [1 .. 2 -> 0 .. MaxSeats]
    /\ \E votes \in PartialFunctions({0, 1}, (0 .. MaxVotes) \X (0 .. MaxVotes)) :
          super_districts_data =
              [sid \in DOMAIN votes |-> Tally(sid, votes[sid][1], votes[sid][2])]

\* Totals and seats at which the float product falls beside an exact half.
FloatTieScenario ==
    /\ target_sizes = <<11, 19>>
    /\ super_districts_data = [sid \in {0, 1} |->
                                 IF sid = 0 THEN Tally(0, 15, 7) ELSE Tally(1, 21, 17)]

InitAlloc ==
    /\ AllocInputs \/ FloatTieScenario
    /\ apc = "aggregated"
    /\ gdf = EmptyDict
    /\ run = 1
    /\ first_data = EmptyDict
    /\ district_adj = EmptyDict
    /\ num_districts = 0
    /\ seed = DefaultSeed
    /\ Starts(Off)
    /\ runB = Off
    /\ LiftIdle
    /\ ChecksIdle

NextAlloc == Allocate

SpecAlloc == InitAlloc /\ [][NextAlloc]_vars

(***************************************************************************)
(* is_connected and can_satisfy_remaining called on their own: on every    *)
(* symmetric adjacency, every set of district ids (ids without a key in    *)
(* the adjacency included) and every list of remaining sizes.              *)
(***************************************************************************)
\* next(iter(districts)) is some member of the set.
IsConnected ==
    /\ fpc = "call"
    /\ IF in_districts = {}
       THEN /\ bfs_start' = "none"
            /\ connected' = is_connected(in_districts, district_adj)
       ELSE \E first \in in_districts :
               /\ bfs_start' = first
               /\ connected' = is_connected_from(first, in_districts, district_adj)
    /\ fpc' = "checked"
    /\ district_adj' = AfterGets(district_adj,
                                 IF in_districts = {} THEN {}
                                 ELSE Bfs({bfs_start'}, in_districts, district_adj))
    /\ UNCHANGED <<in_districts, in_remaining, satisfiable,
                   otherInputs, glueVars, runB, liftVars, aggVars>>

CanSatisfy ==
    /\ fpc = "checked"
    /\ satisfiable' = can_satisfy_remaining(in_districts, district_adj, in_remaining)
    /\ fpc' = "done"
    /\ district_adj' = AfterGets(district_adj,
                                 QueriedByCanSatisfy(in_districts, in_remaining))
    /\ UNCHANGED <<in_districts, in_remaining, bfs_start, connected,
                   otherInputs, glueVars, runB, liftVars, aggVars>>

RemainingLists ==
    UNION {[1 .. k -> 0 .. MaxDistricts] : k \in 0 .. (MaxDistricts \div 2)}

InitChecks ==
    /\ \E n \in 0 .. MaxDistricts : district_adj \in Graphs(n)
    /\ in_districts \in SUBSET (0 .. (MaxDistricts - 1))
    /\ in_remaining \in RemainingLists
    /\ bfs_start = "none"
    /\ connected = "none"
    /\ satisfiable = "none"
    /\ fpc = "call"
    /\ target_sizes = <<>>
    /\ num_districts = 0
    /\ seed = DefaultSeed
    /\ Starts(Off)
    /\ runB = Off
    /\ LiftIdle
    /\ AggIdle

NextChecks ==
    \/ IsConnected
    \/ CanSatisfy

SpecChecks == InitChecks /\ [][NextChecks]_vars

(***************************************************************************)
(* main: the plan is loaded, the district adjacency is lifted from the     *)
(* precinct adjacency, glue_districts_greedy is called with the configured *)
(* target_sizes and num_districts, and its mapping goes to the aggregator  *)
(* and the allocator.  An exception raised on the way ends the program.    *)
(***************************************************************************)
\* Step 2: district_adj = build_district_adjacency(precinct_adj, assignment),
\* after which glue_districts_greedy is called.
MainLift ==
    /\ lpc = "call"
    /\ pc = "later"
    /\ lifted' = build_district_adjacency(precinct_adj, assignment)
    /\ district_adj' = lifted'
    /\ lpc' = "done"
    /\ pc' = "call"
    /\ UNCHANGED <<precinct_adj, assignment, target_sizes, num_districts, seed,
                   attempt, super_id, unused, current_group, district_to_super,
                   rng, started, reason, cause, runB, aggVars, checkVars>>

\* Step 4, second half: the allocator is called once.
MainAllocate ==
    /\ apc = "aggregated"
    /\ Allocate

\* The precinct adjacency of build_precinct_adjacency is symmetric: touching
\* is.  Every precinct of the table has a district in the plan.
MainInputs ==
    /\ gdf = [p \in Precincts |-> [G24PREDHAR |-> 1, G24PRERTRU |-> 1, TOTPOP |-> 2]]
    /\ precinct_adj \in {f \in [Precincts -> SUBSET Precincts] :
                            \A p \in Precincts :
                                /\ p \notin f[p]
                                /\ \A q \in f[p] : p \in f[q]}
    /\ assignment \in [Precincts -> 0 .. (MaxLiftDistricts - 1)]
    /\ num_districts \in 0 .. MaxLiftDistricts
    /\ target_sizes \in {t \in TargetLists : t = <<>> \/ SumSeq(t) = num_districts}
    /\ seed = DefaultSeed

InitMain ==
    /\ MainInputs
    /\ district_adj = EmptyDict
    /\ lifted = EmptyDict
    /\ lpc = "call"
    /\ Starts([NotCalled(1) EXCEPT !.pc = "later"])
    /\ runB = Off
    /\ super_districts_data = EmptyDict
    /\ apc = "call"
    /\ run = 1
    /\ first_data = EmptyDict
    /\ ChecksIdle

NextMain ==
    \/ MainLift
    \/ glue_districts_greedy
    \/ try_gluing
    \/ Return
    \/ RanOut
    \/ PickSeed
    \/ NoCandidate
    \/ Grow
    \/ CloseGroup
    \/ Handler
    \/ Aggregate
    \/ MainAllocate

SpecMain == InitMain /\ [][NextMain]_vars

(***************************************************************************)
(* Attempt a of glue_districts_greedy(seed) next to attempt 0 of           *)
(* glue_districts_greedy(seed + a) on the same adjacency, sizes and number *)
(* of districts.  The first run goes through its attempts 0..a-1 on its    *)
(* own; from the call of _try_gluing on, the two attempts advance          *)
(* together, their draws related as in SpecDet, until each has returned or *)
(* raised its ValueError.                                                  *)
(***************************************************************************)
\* The attempt of the first run that is compared.
Shift == runB.seed - seed

InAttempt(s) == s.pc \in {"try", "seed", "grow"}

InitShift ==
    /\ GlueInputs
    /\ Starts(NotCalled(1))
    /\ \E a \in 0 .. MaxShift : runB = NotCalled(2) @@ [seed |-> seed + a]
    /\ LiftIdle
    /\ AggIdle
    /\ ChecksIdle

EarlierAttempts ==
    /\ pc = "call" \/ attempt < Shift
    /\ Next

SecondCalled ==
    /\ \E m \in GlueSteps(runB) : runB' = m.next
    /\ UNCHANGED <<inputVars, glueVars, liftVars, aggVars, checkVars>>

SameAttempt ==
    LET runA == Cur
        stepsA == IF InAttempt(runA) THEN Steps(runA) ELSE {}
        stepsB == IF InAttempt(runB) THEN Steps(runB) ELSE {}
    IN  /\ attempt = Shift
        /\ pc # "call"
        /\ runB.pc # "call"
        /\ stepsA # {} \/ stepsB # {}
        /\ \E a \in OrStay(stepsA, runA), b \in OrStay(stepsB, runB) :
              /\ SameDraw(runA, a, runB, b)
              /\ Becomes(a.next)
              /\ runB' = b.next
        /\ district_adj' = AfterGets(AfterGets(district_adj, Queried(runA)), Queried(runB))
        /\ UNCHANGED <<otherInputs, liftVars, aggVars, checkVars>>

NextShift ==
    \/ EarlierAttempts
    \/ SecondCalled
    \/ SameAttempt

SpecShift == InitShift /\ [][NextShift]_vars

(***************************************************************************)
(* glue_districts_greedy on an adjacency that knows one district more than *)
(* num_districts says, as build_district_adjacency returns it when the     *)
(* plan uses a district id that num_districts leaves out.                  *)
(***************************************************************************)
OverInputs ==
    /\ num_districts \in 1 .. (MaxDistricts - 1)
    /\ \E E \in {F \in SUBSET Pairs(num_districts) : LeastNumbering(F, num_districts)},
          S \in SUBSET (0 .. (num_districts - 1)) \ {{}} :
             district_adj = GraphOf(E \cup {<<d, num_districts>> : d \in S})
    /\ target_sizes \in TargetLists
    /\ seed = DefaultSeed

InitOver ==
    /\ OverInputs
    /\ Starts(NotCalled(1))
    /\ runB = Off
    /\ LiftIdle
    /\ AggIdle
    /\ ChecksIdle

SpecOver == InitOver /\ [][Next]_vars

(***************************************************************************)
(* The call runs on: a step that can be taken is taken.  This is           *)
(* WF_vars(Next) with ENABLED <<Next>>_vars written as what it amounts to, *)
(* Steps(Cur) # {}: every step of the call changes pc, rng or attempt.     *)
(***************************************************************************)
RunsOn == []<>(Steps(Cur) = {}) \/ []<><<Next>>_vars

SpecFair == Spec /\ RunsOn

(***************************************************************************)
(* Properties.                                                             *)
(***************************************************************************)
\* The districts mapped to super-district i by the mapping of the run.
Group(i) == {d \in DOMAIN district_to_super : district_to_super[d] = i}

AllDistricts == 0 .. (num_districts - 1)

\* Connectedness stated on cuts: every split of S in two is crossed by an edge.
CrossedByEdge(T, S, adj) ==
    \E a \in T, b \in S \ T : b \in Neighbors(adj, a) \/ a \in Neighbors(adj, b)

InducedConnected(S, adj) ==
    \A T \in SUBSET S : (T # {} /\ T # S) => CrossedByEdge(T, S, adj)

ValidTargets ==
    /\ \A i \in DOMAIN target_sizes : target_sizes[i] >= 1
    /\ SumSeq(target_sizes) = num_districts

AbortReasons == {"ran_out", "no_candidate", "not_contiguous", "infeasible"}

\* C1: for positive target sizes that sum to num_districts, every mapping
\* returned assigns every district of 0..num_districts-1 exactly once, to a
\* super-district of the list, gives super-district i exactly target_sizes[i]
\* districts, and makes every group connected in district_adj.
C1_ResultContract ==
    (pc = "returned" /\ ValidTargets) =>
        /\ DOMAIN district_to_super = AllDistricts
        /\ \A d \in AllDistricts : district_to_super[d] \in 0 .. (Len(target_sizes) - 1)
        /\ \A i \in DOMAIN target_sizes :
              /\ Cardinality(Group(i - 1)) = target_sizes[i]
              /\ InducedConnected(Group(i - 1), district_adj)

\* A mapping of four districts into two groups, returned after a failed attempt.
C1_Witness ==
    /\ pc = "returned"
    /\ ValidTargets
    /\ num_districts = 4
    /\ Len(target_sizes) = 2
    /\ attempt >= 1

\* C2: whenever a mapping is returned, whatever the inputs, its domain is
\* exactly 0..num_districts-1: no district is left unassigned.
C2_NoPartialResult ==
    pc = "returned" => DOMAIN district_to_super = AllDistricts

\* C3: when the target sizes do not sum to num_districts the run fails with a
\* configuration error of its own kind before any attempt is started: no
\* attempt runs, nothing is returned.
C3_SumMismatchRejected ==
    SumSeq(target_sizes) # num_districts =>
        /\ started = 0
        /\ pc # "returned"
        /\ pc = "raised" => reason = "invalid_configuration"

\* C4: no mapping is returned for target sizes that contain an entry 0.
C4_ZeroEntryRejected ==
    (\E i \in DOMAIN target_sizes : target_sizes[i] = 0) => pc # "returned"

C5_Counts ==
    /\ started <= max_attempts
    /\ pc \in {"seed", "grow", "aborted", "returned", "raised"} => started = attempt + 1
    /\ pc = "try" => started = attempt
    /\ pc = "raised" =>
          /\ attempt = max_attempts - 1
          /\ reason = "no_grouping"
          /\ cause \in AbortReasons

C5_Steps ==
    /\ pc' = "raised" => (pc = "aborted" /\ attempt = max_attempts - 1 /\ cause' = reason)
    /\ (pc = "aborted" /\ attempt < max_attempts - 1) =>
          (pc' = "try" /\ attempt' = attempt + 1 /\ started' = started)
    /\ started' # started => (pc = "try" /\ started' = started + 1 /\ attempt' = attempt)
    /\ pc \in {"returned", "raised"} => UNCHANGED glueVars

\* C5: attempts run one after the other and at most max_attempts of them are
\* started; a return ends the run in the attempt that succeeded; the run
\* raises only out of the last attempt, after max_attempts attempts, with the
\* one aggregate error whose cause is the error of that last attempt; an abort
\* of an earlier attempt leads to the next attempt and nowhere else.
C5_RetryLoop == [](C5_Counts) /\ [][C5_Steps]_vars

\* The run has raised after max_attempts attempts that all aborted.
C5_Witness ==
    /\ pc = "raised"
    /\ started = max_attempts
    /\ cause = "infeasible"

\* C6: two runs on the same inputs and seed are at the same place with the
\* same locals after every step, whatever generator state each started from:
\* the same attempts, the same choices, the same outcome.
C6_Deterministic ==
    /\ pc = runB.pc
    /\ attempt = runB.attempt
    /\ super_id = runB.super_id
    /\ unused = runB.unused
    /\ current_group = runB.current_group
    /\ district_to_super = runB.district_to_super
    /\ started = runB.started
    /\ reason = runB.reason
    /\ cause = runB.cause

\* Both runs have returned a mapping of four districts after a failed attempt.
C6_Witness ==
    /\ pc = "returned"
    /\ runB.pc = "returned"
    /\ attempt >= 1
    /\ num_districts = 4
    /\ Len(target_sizes) = 2

ChainScenario ==
    /\ district_adj = GraphOf(Chain)
    /\ num_districts = 4
    /\ target_sizes = <<2, 2>>

\* C7: on the chain 0-1-2-3 with target sizes [2, 2] the mapping returned has
\* the groups {0,1} and {2,3}, in either order, and no other group, the pair
\* {1,2} included, is ever committed.
C7_ChainGroups ==
    ChainScenario =>
        /\ Group(0) \in {{}, {0, 1}, {2, 3}}
        /\ Group(1) \in {{}, {0, 1}, {2, 3}}
        /\ pc = "returned" => {Group(0), Group(1)} = {{0, 1}, {2, 3}}

\* The chain glued as {2,3}, {0,1} after a failed attempt.
C7_Witness ==
    /\ ChainScenario
    /\ pc = "returned"
    /\ attempt >= 1
    /\ Group(0) = {2, 3}

NoEdgeScenario ==
    /\ \A d \in DOMAIN district_adj : district_adj[d] = {}
    /\ num_districts = 4
    /\ target_sizes = <<2, 2>>

C8_Steps ==
    NoEdgeScenario =>
        /\ pc' = "aborted" =>
              (pc = "grow" /\ super_id = 0 /\ reason' = "no_candidate")
        /\ pc' # "returned"
        /\ pc' = "raised" => (started' = max_attempts /\ cause' = "no_candidate")

\* C8: without any edge, four districts and target sizes [2, 2], every attempt
\* aborts while growing super-district 0 for want of a candidate, no mapping
\* is returned, and the run raises after max_attempts attempts.
C8_NoEdges == [][C8_Steps]_vars

\* The run without edges has raised after max_attempts attempts.
C8_Witness ==
    /\ NoEdgeScenario
    /\ pc = "raised"
    /\ started = max_attempts

\* C9: the adjacency returned by the lifter is symmetric.
C9_Symmetric ==
    lpc = "done" =>
        \A d1 \in DOMAIN lifted : \A d2 \in lifted[d1] :
            d2 \in DOMAIN lifted /\ d1 \in lifted[d2]

\* Two districts joined only by precinct pairs listed in one direction.
C9_Witness ==
    /\ lpc = "done"
    /\ \E p \in Precincts : \E q \in precinct_adj[p] :
          /\ assignment[p] # assignment[q]
          /\ \A x \in Precincts : \A y \in precinct_adj[x] :
                ~(assignment[x] = assignment[q] /\ assignment[y] = assignment[p])
          /\ assignment[p] \in lifted[assignment[q]]

\* A district none of whose precincts is listed with a precinct of another
\* district, in either direction.
NoIncidentEdge(d) ==
    \A p \in Precincts : \A q \in precinct_adj[p] :
        assignment[p] # assignment[q] => (assignment[p] # d /\ assignment[q] # d)

\* C10: a district used by the assignment that has no incident edge is a key
\* of the adjacency returned by the lifter, with an empty neighbour set.
C10_IsolatedPresent ==
    lpc = "done" =>
        \A d \in Range(assignment) :
            NoIncidentEdge(d) => (d \in DOMAIN lifted /\ lifted[d] = {})


\* The run of aggregate-then-allocate has a value of the aggregator in hand.
Aggregated == apc \in {"aggregated", "allocated", "reallocated"}

Seated == apc \in {"allocated", "reallocated"}

\* The precincts of the table that the assignment and the mapping send to
\* super-district sid, read off the inputs.
UnitsOf(sid) ==
    {u \in DOMAIN gdf :
        /\ u \in DOMAIN assignment
        /\ assignment[u] \in DOMAIN district_to_super
        /\ district_to_super[assignment[u]] = sid}

VotesA(sid) == SumOver(UnitsOf(sid), [u \in UnitsOf(sid) |-> gdf[u].G24PREDHAR])

VotesB(sid) == SumOver(UnitsOf(sid), [u \in UnitsOf(sid) |-> gdf[u].G24PRERTRU])

\* How many times precinct u is listed among the precincts of the totals.
TimesCounted(u) ==
    Cardinality({e \in {<<sid, i>> : sid \in DOMAIN super_districts_data,
                                    i \in 1 .. Cardinality(DOMAIN gdf)} :
                    /\ e[2] \in DOMAIN super_districts_data[e[1]].precincts
                    /\ super_districts_data[e[1]].precincts[e[2]] = u})

Total(field) ==
    SumOver(DOMAIN super_districts_data,
            [sid \in DOMAIN super_districts_data |-> super_districts_data[sid][field]])

\* C11: when the assignment covers every precinct of the table and the mapping
\* covers every district of the assignment, the populations, the party A votes
\* and the party B votes of the super-district totals add up to those of the
\* table, and every precinct is listed in exactly one super-district, once.
C11_SumPreserving ==
    (/\ Aggregated
     /\ DOMAIN gdf \subseteq DOMAIN assignment
     /\ UnmappedDistricts(assignment, district_to_super) = {})
    => /\ Total("population") = SumOver(DOMAIN gdf, [u \in DOMAIN gdf |-> gdf[u].TOTPOP])
       /\ Total("dem_votes") = SumOver(DOMAIN gdf, [u \in DOMAIN gdf |-> gdf[u].G24PREDHAR])
       /\ Total("rep_votes") = SumOver(DOMAIN gdf, [u \in DOMAIN gdf |-> gdf[u].G24PRERTRU])
       /\ \A u \in DOMAIN gdf : TimesCounted(u) = 1

C11_Witness ==
    /\ apc = "aggregated"
    /\ DOMAIN gdf \subseteq DOMAIN assignment
    /\ \E sid \in DOMAIN super_districts_data :
          /\ super_districts_data[sid].num_precincts = 2
          /\ super_districts_data[sid].population = 3
          /\ super_districts_data[sid].dem_votes = 2

\* C13: after the allocator every super-district has total_seats equal to its
\* entry of target_sizes, seats of A and B that add up to total_seats, and each
\* of them an integer between 0 and total_seats, whatever the vote totals.
C13_SeatsAddUp ==
    Seated =>
        \A sid \in DOMAIN super_districts_data :
            LET r == super_districts_data[sid]
            IN  /\ r.total_seats = target_sizes[sid + 1]
                /\ r.dem_seats + r.rep_seats = r.total_seats
                /\ r.dem_seats \in 0 .. r.total_seats
                /\ r.rep_seats \in 0 .. r.total_seats

C13_Witness ==
    /\ apc = "allocated"
    /\ \E sid \in DOMAIN super_districts_data :
          LET r == super_districts_data[sid]
          IN  /\ r.dem_votes = r.rep_votes
              /\ r.dem_votes > 0
              /\ r.total_seats = 3
              /\ r.dem_seats = 2
              /\ r.rep_seats = 1

\* C14: the seats of A are an integer nearest to votesA * seats / (votesA +
\* votesB) taken on the totals of the whole super-district; districts with
\* votes 60/40 and 30/70 merged into one super-district of 3 seats get the
\* share 90/200, 1 seat for A and 2 for B.
C14_NearestOnTotals ==
    Seated =>
        \A sid \in DOMAIN super_districts_data :
            LET r == super_districts_data[sid]
                a == VotesA(sid)
                b == VotesB(sid)
            IN  /\ a + b > 0 =>
                      /\ 2 * r.dem_seats * (a + b) - 2 * a * r.total_seats <= a + b
                      /\ 2 * a * r.total_seats - 2 * r.dem_seats * (a + b) <= a + b
                /\ MergedScenario =>
                      /\ r.dem_share = Quotient(90, 200)
                      /\ r.dem_seats = 1
                      /\ r.rep_seats = 2

C14_Witness ==
    /\ MergedScenario
    /\ apc = "allocated"
    /\ DOMAIN super_districts_data = {0}
    /\ super_districts_data[0].dem_votes = 90

C15_SecondRunSame ==
    (run = 2 /\ Seated) => super_districts_data = first_data

C15_SecondAllocation ==
    (apc = "allocated" /\ apc' = "reallocated")
        => super_districts_data' = super_districts_data

\* C15: aggregate followed by allocate, run again on the same inputs, gives
\* the totals of the first run; and the allocator applied to its own output
\* leaves every field of every record as it was.
C15_Repeatable == [](C15_SecondRunSame) /\ [][C15_SecondAllocation]_vars

C15_Witness ==
    /\ run = 2
    /\ apc = "reallocated"
    /\ \E sid \in DOMAIN super_districts_data :
          /\ super_districts_data[sid].dem_seats > 0
          /\ super_districts_data[sid].rep_seats > 0

\* C18: the share of A is votesA / (votesA + votesB), and 0 when no vote was
\* cast; the allocator then gives A no seat and B all of total_seats.
C18_ShareAndEmpty ==
    Aggregated =>
        \A sid \in DOMAIN super_districts_data :
            LET r == super_districts_data[sid]
                total_votes == r.dem_votes + r.rep_votes
            IN  /\ total_votes > 0 =>
                      r.dem_share.num * total_votes = r.dem_votes * r.dem_share.den
                /\ total_votes = 0 =>
                      /\ r.dem_share = Zero
                      /\ Seated => (r.dem_seats = 0 /\ r.rep_seats = r.total_seats)

C18_Witness ==
    /\ apc = "allocated"
    /\ \E sid \in DOMAIN super_districts_data :
          LET r == super_districts_data[sid]
          IN  /\ r.dem_votes + r.rep_votes = 0
              /\ r.total_seats = MaxSeats
              /\ r.rep_seats = MaxSeats

\* S can be split into connected groups of the sizes listed, in that order.
RECURSIVE Partitionable(_, _, _)
Partitionable(S, adj, sizes) ==
    IF sizes = <<>> THEN S = {}
    ELSE \E G \in SUBSET S :
            /\ Cardinality(G) = Head(sizes)
            /\ InducedConnected(G, adj)
            /\ Partitionable(S \ G, adj, Tail(sizes))

\* The size of the largest connected component of the subgraph induced by S:
\* the most members a connected subset of S has.
LargestComponent(S, adj) ==
    Max({Cardinality(G) : G \in {H \in SUBSET S : InducedConnected(H, adj)}})

\* C16: when the unused districts can be split into connected groups of
\* exactly the remaining sizes, all of them positive, can_satisfy_remaining
\* returns True.
C16_NoFalseNegative ==
    (/\ fpc = "done"
     /\ \A i \in DOMAIN in_remaining : in_remaining[i] >= 1
     /\ Partitionable(in_districts, district_adj, in_remaining))
    => satisfiable = TRUE

C16_Witness ==
    /\ fpc = "done"
    /\ in_remaining = <<2, 2>>
    /\ Partitionable(in_districts, district_adj, in_remaining)
    /\ LargestComponent(in_districts, district_adj) = 2
    /\ satisfiable = TRUE

\* C19: is_connected returns True exactly when the subgraph induced by the
\* set is connected: True for the empty set and for one district, False as
\* soon as a member cannot be reached through members, a district without a
\* key counting as without neighbours, and whichever member it starts from.
C19_InducedConnectivity ==
    fpc \in {"checked", "done"} =>
        /\ connected = InducedConnected(in_districts, district_adj)
        /\ Cardinality(in_districts) <= 1 => connected = TRUE

C19_Witness ==
    /\ fpc = "checked"
    /\ connected = FALSE
    /\ bfs_start # Min(in_districts)
    /\ \E a \in in_districts, b \in in_districts, m \in DOMAIN district_adj :
          /\ m \notin in_districts
          /\ m \in Neighbors(district_adj, a)
          /\ m \in Neighbors(district_adj, b)
          /\ b \notin Bfs({a}, in_districts, district_adj)

\* C20: with no remaining size can_satisfy_remaining returns True exactly when
\* no district is unused; otherwise exactly when the number of unused
\* districts is the sum of the remaining sizes and the largest component of
\* the unused districts is at least the largest remaining size.
C20_Characterised ==
    fpc = "done" =>
        satisfiable =
            IF in_remaining = <<>> THEN in_districts = {}
            ELSE /\ Cardinality(in_districts) = SumSeq(in_remaining)
                 /\ LargestComponent(in_districts, district_adj)
                        >= Max(Range(in_remaining))

\* Components of 3 and 1 districts with remaining sizes [2, 2]: the answer is
\* True although no split exists.
C20_Witness ==
    /\ fpc = "done"
    /\ in_remaining = <<2, 2>>
    /\ Cardinality(in_districts) = 4
    /\ LargestComponent(in_districts, district_adj) = 3
    /\ ~Partitionable(in_districts, district_adj, in_remaining)
    /\ satisfiable = TRUE

\* The district ids the baseline assignment uses.
UsedDistricts == {assignment[p] : p \in DOMAIN assignment}

\* C12: when a district of the assignment is missing from the mapping, the
\* aggregator fails and hands back no totals; and after glue_districts_greedy
\* returned, with 0..num_districts-1 the districts the assignment uses, it
\* does not fail that way.
C12_UnassignedDistrict ==
    /\ (/\ apc \notin {"off", "call"}
        /\ UnmappedDistricts(assignment, district_to_super) # {})
       => (apc = "KeyError" /\ super_districts_data = EmptyDict)
    /\ (pc = "returned" /\ UsedDistricts = AllDistricts) => apc # "KeyError"

\* C17: when num_districts is not the number of district ids the assignment
\* uses, no attempt is started and glue_districts_greedy returns no mapping.
C17_MismatchRejected ==
    (lpc = "done" /\ num_districts # Cardinality(UsedDistricts))
    => (started = 0 /\ pc # "returned")

\* Some precinct of district d1 and some precinct of district d2 are adjacent
\* in the precinct adjacency, in one direction or the other.
Touching(d1, d2) ==
    \E u \in DOMAIN assignment, v \in DOMAIN assignment :
        /\ assignment[u] = d1
        /\ assignment[v] = d2
        /\ \/ (u \in DOMAIN precinct_adj /\ v \in precinct_adj[u])
           \/ (v \in DOMAIN precinct_adj /\ u \in precinct_adj[v])

\* Every id that is a district of the assignment, a key of the lifted
\* adjacency or a member of one of its sets.
LiftedIds ==
    {assignment[p] : p \in DOMAIN assignment} \cup DOMAIN lifted
    \cup UNION {lifted[d] : d \in DOMAIN lifted}

\* C21: d2 is a neighbour of d1 in the lifted adjacency exactly when d1 # d2
\* and a precinct of d1 is adjacent, in either direction, to a precinct of d2;
\* the adjacency has no other edge.
C21_ExactEdges ==
    lpc = "done" =>
        \A d1 \in LiftedIds, d2 \in LiftedIds :
            d2 \in Neighbors(lifted, d1) <=> (d1 # d2 /\ Touching(d1, d2))

\* An edge with two witnessing pairs of precincts, one of them listed in one
\* direction only, next to a pair of adjacent precincts of the same district.
C21_Witness ==
    /\ lpc = "done"
    /\ \E u \in Precincts, v \in Precincts, w \in Precincts :
          /\ assignment[u] = assignment[w]
          /\ assignment[u] # assignment[v]
          /\ u # w
          /\ w \in precinct_adj[u]
          /\ v \in precinct_adj[u] /\ u \notin precinct_adj[v]
          /\ v \in precinct_adj[w]
          /\ assignment[u] \in Neighbors(lifted, assignment[v])

C22_GroupConnected ==
    /\ reason # "not_contiguous"
    /\ cause # "not_contiguous"
    /\ pc = "grow" => InducedConnected(current_group, district_adj)

C22_Added ==
    (pc = "grow" /\ pc' = "grow") =>
        \A new \in current_group' \ current_group :
            \E dist \in current_group : new \in Neighbors(district_adj, dist)

\* C22: with a symmetric adjacency the group under construction is connected
\* in every state of an attempt, every district added is adjacent to one
\* already in the group, and no attempt ends on "is not contiguous".
C22_NeverNotContiguous == [](C22_GroupConnected) /\ [][C22_Added]_vars

\* A group of three districts has passed the contiguity check.
C22_Witness ==
    /\ pc = "seed"
    /\ super_id = 1
    /\ Cardinality(Group(0)) = 3
    /\ \E d \in Group(0) : Cardinality(Neighbors(district_adj, d) \cap Group(0)) = 1

\* C23: no step of a run of glue_districts_greedy, with the calls of
\* is_connected and can_satisfy_remaining it makes, changes the adjacency: it
\* keeps its keys and its neighbour sets, also when a district asked for has
\* no key.
C23_AdjacencyUnchanged == [][district_adj' = district_adj]_vars

\* A mapping returned after an aborted attempt, with a district that has no
\* key in the adjacency and was asked for by both checks.
C23_Witness ==
    /\ pc = "returned"
    /\ started >= 2
    /\ Len(target_sizes) = 2
    /\ \E d \in AllDistricts : d \notin DOMAIN district_adj

\* The first run is in, or at the end of, the attempt that is compared, and
\* the second in its attempt 0.
Compared ==
    /\ "seed" \in DOMAIN runB
    /\ attempt = Shift
    /\ pc \in {"seed", "grow", "aborted", "returned"}

C24_SameOutcome ==
    Compared =>
        /\ runB.attempt = 0
        /\ pc = runB.pc
        /\ reason = runB.reason
        /\ district_to_super = runB.district_to_super
        /\ unused = runB.unused
        /\ current_group = runB.current_group
        /\ super_id = runB.super_id

C24_FreshStart ==
    (pc = "try" /\ pc' = "seed") =>
        /\ rng' = [seed |-> seed + attempt, draws |-> <<>>]
        /\ unused' = AllDistricts
        /\ district_to_super' = EmptyDict
        /\ current_group' = {}
        /\ super_id' = 0

\* C24: attempt a starts from the generator seeded with seed + a, every
\* district unused and an empty mapping, whatever the attempts before it
\* left; and it goes the way of attempt 0 of a call with seed + a, to the
\* same mapping or the same error.
C24_AttemptIndependent == [](C24_SameOutcome) /\ [][C24_FreshStart]_vars

\* Attempt 2 has returned a mapping, after two attempts that aborted.
C24_Witness ==
    /\ "seed" \in DOMAIN runB
    /\ Shift = 2
    /\ attempt = 2
    /\ pc = "returned"
    /\ runB.pc = "returned"
    /\ Len(target_sizes) = 2

\* A non-empty list of sizes, each at least 1, that do not add up to the
\* number of districts.
SumMismatch ==
    /\ target_sizes # <<>>
    /\ \A i \in DOMAIN target_sizes : target_sizes[i] >= 1
    /\ SumSeq(target_sizes) # num_districts

\* C25: with sizes that are all at least 1 and do not add up to
\* num_districts, no group is ever committed: every attempt aborts on
\* super-district 0, for want of a seed or of a candidate or on the
\* feasibility check; no mapping is returned and the run can only end with
\* the error raised after max_attempts attempts.
C25_NeverCommits ==
    SumMismatch =>
        /\ district_to_super = EmptyDict
        /\ super_id = 0
        /\ pc # "returned"
        /\ reason \in {"none", "ran_out", "no_candidate", "infeasible", "no_grouping"}
        /\ cause \in {"none", "ran_out", "no_candidate", "infeasible"}
        /\ Steps(Cur) = {} => (pc = "raised" /\ started = max_attempts)

C25_Witness ==
    /\ SumMismatch
    /\ pc = "raised"
    /\ cause = "infeasible"
    /\ SumSeq(target_sizes) < num_districts
    /\ Len(target_sizes) = 2

Committed == DOMAIN district_to_super

C26_Partition ==
    pc \in {"seed", "grow", "returned"} =>
        /\ unused \cap current_group = {}
        /\ unused \cap Committed = {}
        /\ current_group \cap Committed = {}
        /\ unused \cup current_group \cup Committed = AllDistricts

C26_Kept ==
    (pc \in {"seed", "grow"} /\ pc' \in {"seed", "grow", "returned"}) =>
        \A d \in Committed :
            d \in DOMAIN district_to_super' /\ district_to_super'[d] = district_to_super[d]

RECURSIVE CanReturn(_)
\* Some sequence of seed and candidate choices ends the attempt with a mapping.
CanReturn(s) ==
    \/ s.pc = "returned"
    \/ /\ s.pc \in {"seed", "grow"}
       /\ \E m \in Steps(s) : CanReturn(m.next)

RECURSIVE CanAbort(_)
\* Some sequence of seed and candidate choices aborts the attempt.
CanAbort(s) ==
    \/ s.pc = "aborted"
    \/ /\ s.pc \in {"seed", "grow"}
       /\ \E m \in Steps(s) : CanAbort(m.next)

AttemptStarts ==
    /\ pc = "seed"
    /\ super_id = 0
    /\ unused = AllDistricts
    /\ district_to_super = EmptyDict

\* C27: when the sizes are positive and add up to num_districts and the
\* districts can be split into connected groups of these sizes in order, some
\* sequence of seed and candidate choices of an attempt passes every check and
\* returns a mapping.
C27_SomeChoiceSucceeds ==
    (/\ AttemptStarts
     /\ ValidTargets
     /\ Partitionable(AllDistricts, district_adj, target_sizes))
        => CanReturn(Cur)

\* An attempt on a splittable graph that other choices lead into an abort.
C27_Witness ==
    /\ AttemptStarts
    /\ ValidTargets
    /\ Len(target_sizes) >= 2
    /\ Partitionable(AllDistricts, district_adj, target_sizes)
    /\ CanReturn(Cur)
    /\ CanAbort(Cur)

\* C28: when dem_votes * total_seats / (dem_votes + rep_votes) is exactly
\* k + 1/2, dem_seats is whichever of k and k + 1 is even; equal totals with
\* 5 seats give 2 and 3, with 3 seats 2 and 1.
C28_HalfToEven ==
    Seated =>
        \A sid \in DOMAIN super_districts_data :
            LET r == super_districts_data[sid]
                votes == r.dem_votes + r.rep_votes
                twice == 2 * r.dem_votes * r.total_seats
            IN  (/\ votes > 0
                 /\ twice % votes = 0
                 /\ (twice \div votes) % 2 = 1)
                    => /\ r.dem_seats % 2 = 0
                       /\ r.dem_seats \in {(twice \div votes - 1) \div 2,
                                           (twice \div votes + 1) \div 2}
                       /\ (r.dem_votes = r.rep_votes /\ r.total_seats = 5)
                              => (r.dem_seats = 2 /\ r.rep_seats = 3)
                       /\ (r.dem_votes = r.rep_votes /\ r.total_seats = 3)
                              => (r.dem_seats = 2 /\ r.rep_seats = 1)

AssignedUnits == DOMAIN gdf \cap DOMAIN assignment

\* C29: a precinct of the table without an entry in the assignment raises no
\* error and is left out of every record, so the totals are the sums over the
\* assigned precincts; a super-district that gets no precinct has no record.
C29_UnassignedLeftOut ==
    /\ apc = "KeyError" => UnmappedDistricts(assignment, district_to_super) # {}
    /\ Aggregated =>
          /\ \A u \in DOMAIN gdf \ DOMAIN assignment : TimesCounted(u) = 0
          /\ \A u \in AssignedUnits : TimesCounted(u) = 1
          /\ Total("population") =
                SumOver(AssignedUnits, [u \in AssignedUnits |-> gdf[u].TOTPOP])
          /\ Total("dem_votes") =
                SumOver(AssignedUnits, [u \in AssignedUnits |-> gdf[u].G24PREDHAR])
          /\ Total("rep_votes") =
                SumOver(AssignedUnits, [u \in AssignedUnits |-> gdf[u].G24PRERTRU])
          /\ DOMAIN super_districts_data =
                {district_to_super[d] : d \in {e \in DOMAIN district_to_super :
                                                  UnitsOf(district_to_super[e]) # {}}}

\* One precinct has no entry in the assignment and one super-district of the
\* mapping gets no precinct.
C29_Witness ==
    /\ apc = "aggregated"
    /\ DOMAIN gdf \ DOMAIN assignment # {}
    /\ super_districts_data # EmptyDict
    /\ \E d \in DOMAIN district_to_super :
          district_to_super[d] \notin DOMAIN super_districts_data

Selections == num_districts - Cardinality(unused)

C30_Bounded ==
    /\ attempt \in 0 .. (max_attempts - 1)
    /\ started <= max_attempts
    /\ pc \in {"seed", "grow", "returned", "aborted"} => Selections \in 0 .. num_districts
    /\ Steps(Cur) = {} => pc \in {"returned", "raised"}

C30_OneOut ==
    (pc = "grow" /\ Growing(Cur)) =>
        \/ pc' = "aborted"
        \/ /\ pc' = "grow"
           /\ unused' \subseteq unused
           /\ Cardinality(unused') = Cardinality(unused) - 1
           /\ current_group' = current_group \cup (unused \ unused')
           /\ attempt' = attempt

\* C30: every call ends with a returned mapping or a raised failure; an
\* iteration of the growth loop aborts the attempt or moves exactly one
\* district out of unused, an attempt makes at most num_districts selections
\* and at most max_attempts attempts are made.
C30_Terminates ==
    /\ <>(pc \in {"returned", "raised"})
    /\ [](C30_Bounded)
    /\ [][C30_OneOut]_vars

\* All attempts were used up on a first size larger than num_districts, the
\* last one having grown a group until no candidate was left.
C30_Witness ==
    /\ pc = "raised"
    /\ attempt = max_attempts - 1
    /\ cause = "no_candidate"
    /\ num_districts >= 2
    /\ target_sizes # <<>>
    /\ target_sizes[1] > num_districts
====
